---- MODULE Spec2Model ----
(***************************************************************************)
(* Model of the raycast-docset builder: the heading/anchor extractor       *)
(* (DocsetBuilder._copy_documents, _copy_html_with_toc), the entry         *)
(* classifier (raycast_docset/parsers.py, ALL_PARSERS) and the index       *)
(* assembler (DocsetBuilder._create_index over _collect_entries).          *)
(*                                                                         *)
(* Python strings are modelled as sequences of one-character strings, so   *)
(* that startswith, "in", split, strip, lower, quote and unquote are       *)
(* computed character by character as the library computes them.           *)
(***************************************************************************)
EXTENDS Integers, Sequences, FiniteSets, TLC

\* ------------------------------------------------------------------------
\* Characters
\* ------------------------------------------------------------------------

\* The printable ASCII characters, code points 32..126 in order (the grave
\* accent, code point 96, is written "U+0060").
Ascii ==
    <<" ", "!", "\"", "#", "$", "%", "&", "'", "(", ")", "*", "+", ",", "-", ".", "/", "0", "1", "2", "3", "4", "5", "6", "7", "8", "9", ":", ";", "<", "=", ">", "?", "@", "A", "B", "C", "D", "E", "F", "G", "H", "I", "J", "K", "L", "M", "N", "O">> \o
    <<"P", "Q", "R", "S", "T", "U", "V", "W", "X", "Y", "Z", "[", "\\", "]", "^", "_", "U+0060", "a", "b", "c", "d", "e", "f", "g", "h", "i", "j", "k", "l", "m", "n", "o", "p", "q", "r", "s", "t", "u", "v", "w", "x", "y", "z", "{", "|", "}", "~">>

\* Stands for every character outside printable ASCII, which is what a
\* decoded byte outside 32..126 becomes.
ReplacementChar == "U+FFFD"

HexDigits == <<"0", "1", "2", "3", "4", "5", "6", "7", "8", "9", "A", "B", "C", "D", "E", "F">>

\* ord(c) for a printable ASCII character, 0 for any other character.
Ord(c) ==
    IF \E i \in DOMAIN Ascii : Ascii[i] = c
    THEN 31 + (CHOOSE i \in DOMAIN Ascii : Ascii[i] = c)
    ELSE 0

\* chr(n) for a byte value.
Chr(n) == IF n >= 32 /\ n <= 126 THEN Ascii[n - 31] ELSE ReplacementChar

IsUpperChar(c) == Ord(c) >= 65 /\ Ord(c) <= 90
IsLowerChar(c) == Ord(c) >= 97 /\ Ord(c) <= 122
IsDigitChar(c) == Ord(c) >= 48 /\ Ord(c) <= 57
\* \w of the re module
IsWordChar(c) == IsUpperChar(c) \/ IsLowerChar(c) \/ IsDigitChar(c) \/ c = "_"
\* str.strip() strips whitespace
IsSpaceChar(c) == c \in {" ", "\t", "\n", "\r"}
LowerChar(c) == IF IsUpperChar(c) THEN Chr(Ord(c) + 32) ELSE c

\* ------------------------------------------------------------------------
\* Strings
\* ------------------------------------------------------------------------

\* The value None where a string is expected: a sequence that is not a
\* sequence of characters
None == <<"None">>

\* s.startswith(p)
StartsWith(s, p) == Len(p) <= Len(s) /\ SubSeq(s, 1, Len(p)) = p
\* s.endswith(p)
EndsWith(s, p) == Len(p) <= Len(s) /\ SubSeq(s, Len(s) - Len(p) + 1, Len(s)) = p

\* s.find(sub) + 1: the position of the first occurrence of sub, 0 when absent.
Find(sub, s) ==
    LET hits == {i \in 1..(Len(s) - Len(sub) + 1) : SubSeq(s, i, i + Len(sub) - 1) = sub}
    IN IF hits = {} THEN 0 ELSE CHOOSE i \in hits : \A j \in hits : i <= j

\* sub in s, and pattern.search(s) for a pattern without metacharacters
Contains(sub, s) == Find(sub, s) # 0

\* s.lower()
Lower(s) == [i \in DOMAIN s |-> LowerChar(s[i])]

\* s.strip()
Strip(s) ==
    LET keep == {i \in DOMAIN s : ~IsSpaceChar(s[i])}
    IN IF keep = {} THEN <<>>
       ELSE SubSeq(s, CHOOSE i \in keep : \A j \in keep : i <= j,
                      CHOOSE i \in keep : \A j \in keep : i >= j)

\* s.split(sep)[0]: the text before the first occurrence of sep
SplitFirst(s, sep) == IF Contains(sep, s) THEN SubSeq(s, 1, Find(sep, s) - 1) ELSE s

\* urllib.parse.quote(s, safe=""): every character except letters, digits
\* and "_.-~" becomes "%XX" with upper-case hexadecimal digits.
QuoteChar(c) ==
    IF IsWordChar(c) \/ c \in {".", "-", "~"}
    THEN <<c>>
    ELSE <<"%", HexDigits[(Ord(c) \div 16) + 1], HexDigits[(Ord(c) % 16) + 1]>>

RECURSIVE quote(_)
quote(s) ==
    IF s = <<>> THEN <<>>
    ELSE IF Len(s) = 1 THEN QuoteChar(s[1])
    ELSE quote(SubSeq(s, 1, Len(s) \div 2)) \o quote(SubSeq(s, (Len(s) \div 2) + 1, Len(s)))

IsHexChar(c) == IsDigitChar(c) \/ LowerChar(c) \in {"a", "b", "c", "d", "e", "f"}
HexVal(c) == IF IsDigitChar(c) THEN Ord(c) - 48 ELSE Ord(LowerChar(c)) - 87

\* urllib.parse.unquote(s): "%" followed by two hexadecimal digits becomes
\* the character with that code; any other "%" is kept.
unquote(s) ==
    LET escapes == {i \in DOMAIN s :
                       /\ s[i] = "%"
                       /\ i + 2 <= Len(s)
                       /\ IsHexChar(s[i + 1])
                       /\ IsHexChar(s[i + 2])}
        kept == SelectSeq([i \in DOMAIN s |-> i],
                          LAMBDA i : (i - 1) \notin escapes /\ (i - 2) \notin escapes)
    IN [k \in DOMAIN kept |->
           IF kept[k] \in escapes
           THEN Chr(16 * HexVal(s[kept[k] + 1]) + HexVal(s[kept[k] + 2]))
           ELSE s[kept[k]]]

\* ------------------------------------------------------------------------
\* String constants of the program
\* ------------------------------------------------------------------------

API_PATH_PATTERN == <<"a", "p", "i", "-", "r", "e", "f", "e", "r", "e", "n", "c", "e", "/">>
UTILITIES_PATH_PATTERN == <<"u", "t", "i", "l", "i", "t", "i", "e", "s", "/">>
BASICS_PATTERN == <<"b", "a", "s", "i", "c", "s", "/">>
AI_PATTERN == <<"a", "i", "/">>
TEAMS_PATTERN == <<"t", "e", "a", "m", "s", "/">>
EXAMPLES_PATTERN == <<"e", "x", "a", "m", "p", "l", "e", "s", "/">>
INFO_PATTERN == <<"i", "n", "f", "o", "r", "m", "a", "t", "i", "o", "n", "/">>
MISC_PATH_PATTERN == <<"m", "i", "s", "c", "/">>
S_user_interface == <<"u", "s", "e", "r", "-", "i", "n", "t", "e", "r", "f", "a", "c", "e">>
S_list == <<"l", "i", "s", "t">>
S_grid == <<"g", "r", "i", "d">>
S_form == <<"f", "o", "r", "m">>
S_detail == <<"d", "e", "t", "a", "i", "l">>
S_action == <<"a", "c", "t", "i", "o", "n">>
S_use == <<"u", "s", "e">>
S_react_hooks == <<"r", "e", "a", "c", "t", "-", "h", "o", "o", "k", "s">>
S_functions == <<"f", "u", "n", "c", "t", "i", "o", "n", "s">>
S_icons == <<"i", "c", "o", "n", "s">>
S_oauth == <<"o", "a", "u", "t", "h">>
S_migration == <<"m", "i", "g", "r", "a", "t", "i", "o", "n">>
S_changelog == <<"c", "h", "a", "n", "g", "e", "l", "o", "g">>
S_faq == <<"f", "a", "q">>
S_html == <<".", "h", "t", "m", "l">>
S_developers == <<"d", "e", "v", "e", "l", "o", "p", "e", "r", "s", ".", "r", "a", "y", "c", "a", "s", "t", ".", "c", "o", "m">>
S_apple_ref == <<"/", "/", "a", "p", "p", "l", "e", "_", "r", "e", "f", "/">>
S_cpp == <<"c", "p", "p", "/">>
S_bar == <<" ", "|", " ">>
S_dash == <<" ", "-", " ">>
S_ellipsis == <<".", ".", ".">>
T_Guide == <<"G", "u", "i", "d", "e">>
T_Section == <<"S", "e", "c", "t", "i", "o", "n">>
T_Function == <<"F", "u", "n", "c", "t", "i", "o", "n">>
T_Class == <<"C", "l", "a", "s", "s">>
T_Component == <<"C", "o", "m", "p", "o", "n", "e", "n", "t">>
T_Type == <<"T", "y", "p", "e">>
T_Property == <<"P", "r", "o", "p", "e", "r", "t", "y">>
T_Sample == <<"S", "a", "m", "p", "l", "e">>
S_example == <<"e", "x", "a", "m", "p", "l", "e">>
S_examples == <<"e", "x", "a", "m", "p", "l", "e", "s">>
S_see_also == <<"s", "e", "e", " ", "a", "l", "s", "o">>
S_props == <<"p", "r", "o", "p", "s">>
S_properties == <<"p", "r", "o", "p", "e", "r", "t", "i", "e", "s">>
S_return == <<"r", "e", "t", "u", "r", "n">>
S_returns == <<"r", "e", "t", "u", "r", "n", "s">>
S_parameters == <<"p", "a", "r", "a", "m", "e", "t", "e", "r", "s">>
S_signature == <<"s", "i", "g", "n", "a", "t", "u", "r", "e">>
S_Raycast_API == <<"R", "a", "y", "c", "a", "s", "t", " ", "A", "P", "I">>
S_Raycast == <<"R", "a", "y", "c", "a", "s", "t">>
S_dotdot == <<".", ".", "/">>

\* ------------------------------------------------------------------------
\* Documents
\* ------------------------------------------------------------------------
\* A heading element <hN id=...>: its level, its id attribute (<<>> when
\* absent or empty), its get_text(), whether it lies inside a header, nav
\* or aside element, the name attributes of the dashAnchor elements that
\* directly precede it as siblings, the name attributes of the dashAnchor
\* elements at its start, and the id of its first child element (<<>> when
\* it has no child element or that element has no id).
Heading(level, id, text, chrome, sibling) ==
    [level |-> level, id |-> id, text |-> text, chrome |-> chrome,
     before |-> <<>>, markers |-> <<>>, sibling |-> sibling]

\* A parsed document: the text of its <title> (None when absent), whether
\* it has a <head>, its headings in document order, the number of
\* <style> elements the builder appended to the head, and the relative
\* references (href and src values) of its links, images and style sheets.
Dom(title, head, headings) ==
    [title |-> title, head |-> head, headings |-> headings, styles |-> 0,
     refs |-> <<>>]

\* An entry whose path is taken from the docset's Resources directory
IndexEntryFromResources(name, entry_type, path) ==
    [name |-> name, entry_type |-> entry_type,
     path |-> <<"D", "o", "c", "u", "m", "e", "n", "t", "s", "/">> \o path]

\* IndexEntry(name, entry_type, path)
IndexEntry(name, entry_type, path) == [name |-> name, entry_type |-> entry_type, path |-> path]

\* ------------------------------------------------------------------------
\* Path/asset rewriter: _fix_paths
\* ------------------------------------------------------------------------

\* len(relative_to_docs.parts) for a path relative to documents_dir
Parts(path) == 1 + Cardinality({i \in DOMAIN path : path[i] = "/"})

\* s * n
RECURSIVE Repeat(_, _)
Repeat(s, n) == IF n <= 0 THEN <<>> ELSE s \o Repeat(s, n - 1)

\* _fix_paths computes the depth of dest_file and the prefix "../" * depth;
\* the substitutions that follow remove script and div elements and do
\* not use the prefix, so every reference is returned as it was read.
_fix_paths(content, dest_file) ==
    LET depth == Parts(dest_file) - 1
        prefix == Repeat(S_dotdot, depth)
    IN content

\* ------------------------------------------------------------------------
\* Heading/anchor extractor: the body of the try block of _copy_html_with_toc
\* ------------------------------------------------------------------------

\* skip_headings of _copy_html_with_toc
ExtractorSkipHeadings == {S_see_also, S_example, S_examples}

\* name attribute of the dashAnchor when the heading text is not encoded
AnchorNameRaw(entry_type, heading_text) ==
    S_apple_ref \o S_cpp \o entry_type \o <<"/">> \o heading_text

\* name attribute of the dashAnchor built for a heading
AnchorName(entry_type, heading_text) ==
    S_apple_ref \o S_cpp \o entry_type \o <<"/">> \o quote(heading_text)

\* The loop iteration with heading.insert_before(anchor) in the place of
\* heading.insert(0, anchor)
InjectAnchorBefore(h) ==
    LET heading_text == Strip(h.text)
        entry_type == IF h.level = 1 THEN T_Guide ELSE T_Section
    IN IF h.level \notin {1, 2, 3} \/ h.id = <<>> \/ heading_text = <<>>
       THEN h
       ELSE IF Lower(heading_text) \in ExtractorSkipHeadings
       THEN h
       ELSE [h EXCEPT !.before = Append(@, AnchorName(entry_type, heading_text))]

\* One iteration of the loop over soup.find_all(["h1", "h2", "h3"], id=True)
InjectAnchor(h) ==
    LET heading_text == Strip(h.text)
        entry_type == IF h.level = 1 THEN T_Guide ELSE T_Section
    IN IF h.level \notin {1, 2, 3} \/ h.id = <<>> \/ heading_text = <<>>
       THEN h
       ELSE IF Lower(heading_text) \in ExtractorSkipHeadings
       THEN h
       ELSE [h EXCEPT !.markers = <<AnchorName(entry_type, heading_text)>> \o @]

\* The headings when no element is decomposed
KeepChrome(headings) == headings

\* header, nav and aside elements are decomposed with everything in them
RemoveChrome(headings) == SelectSeq(headings, LAMBDA h : ~h.chrome)

\* The document written to dest_file when no step raises
Transform(dom) ==
    LET kept == RemoveChrome(dom.headings)
    IN [dom EXCEPT !.headings = [i \in DOMAIN kept |-> InjectAnchor(kept[i])],
                   !.styles = IF dom.head THEN @ + 1 ELSE @]

\* ------------------------------------------------------------------------
\* Entry classifier (parsers.py)
\* ------------------------------------------------------------------------

\* soup.find("h1"): the first level-1 heading as a one-element sequence,
\* the empty sequence when there is none
FirstH1(dom) ==
    LET idx == {i \in DOMAIN dom.headings : dom.headings[i].level = 1}
    IN IF idx = {} THEN <<>>
       ELSE <<dom.headings[CHOOSE i \in idx : \A j \in idx : i <= j]>>

\* get_title_from_soup; a falsy result ("" or None) is returned as it is
get_title_from_soup(dom) ==
    LET h1 == FirstH1(dom)
        title == dom.title
    IN IF h1 # <<>> /\ Strip(h1[1].text) # <<>>
       THEN Strip(h1[1].text)
       ELSE IF title # None
       THEN IF Contains(S_bar, title) THEN Strip(SplitFirst(title, S_bar))
            ELSE IF Contains(S_dash, title) THEN Strip(SplitFirst(title, S_dash))
            ELSE Strip(title)
       ELSE None

\* "if not title" / "if title"
Falsy(title) == title = None \/ title = <<>>

\* Concatenation of f[1], ..., f[n] for a sequence f of sequences
RECURSIVE Flatten(_)
Flatten(f) == IF f = <<>> THEN <<>> ELSE Head(f) \o Flatten(Tail(f))

\* --- APIReferenceParser ---

APIReferenceMatches(relative_path) == Contains(API_PATH_PATTERN, relative_path)

UIComponentWords == {S_list, S_grid, S_form, S_detail, S_action}

_determine_entry_type(title, relative_path) ==
    LET title_lower == Lower(title)
    IN IF Contains(S_user_interface, relative_path)
       THEN IF \E comp \in UIComponentWords : Contains(comp, title_lower)
            THEN T_Component
            ELSE T_Class
       ELSE IF StartsWith(title, S_use)
       THEN T_Function
       ELSE T_Class

\* skip_headings of _parse_api_elements
APISkipHeadings ==
    {S_example, S_examples, S_props, S_properties, S_return, S_returns,
     S_parameters, S_signature, S_see_also}

\* The loop iteration when only "Function" entries are named after the page
ParseApiElementBare(h, relative_path, parent_name) ==
    LET heading_text == Strip(h.text)
        isFunction == Contains(<<"(">>, heading_text) /\ Contains(<<")">>, heading_text)
        entry_type ==
            IF isFunction THEN T_Function
            ELSE IF IsUpperChar(heading_text[1]) /\ ~Contains(<<" ">>, heading_text) THEN T_Type
            ELSE IF IsLowerChar(heading_text[1]) /\ ~Contains(<<" ">>, heading_text) THEN T_Property
            ELSE T_Section
        cleaned == IF isFunction THEN Strip(SplitFirst(heading_text, <<"(">>)) ELSE heading_text
    IN IF h.level \notin {2, 3, 4} \/ h.id = <<>> \/ heading_text = <<>>
       THEN <<>>
       ELSE IF Lower(heading_text) \in APISkipHeadings
       THEN <<>>
       ELSE <<IndexEntry(IF entry_type = T_Function
                         THEN parent_name \o <<".">> \o cleaned
                         ELSE cleaned,
                         entry_type,
                         relative_path \o <<"#">> \o h.id)>>

\* One iteration of the loop of _parse_api_elements: the entries (none or
\* one) that heading h yields
ParseApiElement(h, relative_path, parent_name) ==
    LET heading_text == Strip(h.text)
        isFunction == Contains(<<"(">>, heading_text) /\ Contains(<<")">>, heading_text)
        entry_type ==
            IF isFunction THEN T_Function
            ELSE IF IsUpperChar(heading_text[1]) /\ ~Contains(<<" ">>, heading_text) THEN T_Type
            ELSE IF IsLowerChar(heading_text[1]) /\ ~Contains(<<" ">>, heading_text) THEN T_Property
            ELSE T_Section
        cleaned == IF isFunction THEN Strip(SplitFirst(heading_text, <<"(">>)) ELSE heading_text
    IN IF h.level \notin {2, 3, 4} \/ h.id = <<>> \/ heading_text = <<>>
       THEN <<>>
       ELSE IF Lower(heading_text) \in APISkipHeadings
       THEN <<>>
       ELSE <<IndexEntry(IF entry_type \in {T_Property, T_Function}
                         THEN parent_name \o <<".">> \o cleaned
                         ELSE cleaned,
                         entry_type,
                         relative_path \o <<"#">> \o h.id)>>

_parse_api_elements(dom, relative_path, parent_name) ==
    Flatten([i \in DOMAIN dom.headings |->
                ParseApiElement(dom.headings[i], relative_path, parent_name)])

APIReferenceParse(dom, relative_path) ==
    LET title == get_title_from_soup(dom)
    IN IF Falsy(title) THEN <<>>
       ELSE <<IndexEntry(title, _determine_entry_type(title, relative_path), relative_path)>>
            \o _parse_api_elements(dom, relative_path, title)

\* --- UtilitiesParser ---

UtilitiesMatches(relative_path) == Contains(UTILITIES_PATH_PATTERN, relative_path)

UtilitiesEntryType(title, relative_path) ==
    IF Contains(S_react_hooks, relative_path) \/ StartsWith(title, S_use) THEN T_Function
    ELSE IF Contains(S_functions, relative_path) THEN T_Function
    ELSE IF Contains(S_icons, relative_path) THEN T_Function
    ELSE IF Contains(S_oauth, relative_path) THEN T_Class
    ELSE T_Function

UtilitiesParse(dom, relative_path) ==
    LET title == get_title_from_soup(dom)
    IN IF Falsy(title) THEN <<>>
       ELSE <<IndexEntry(title, UtilitiesEntryType(title, relative_path), relative_path)>>

\* --- GuideParser ---

GuidePatterns == {BASICS_PATTERN, AI_PATTERN, TEAMS_PATTERN, EXAMPLES_PATTERN, INFO_PATTERN}

GuideMatches(relative_path) == \E pattern \in GuidePatterns : Contains(pattern, relative_path)

GuideParse(dom, relative_path) ==
    LET title == get_title_from_soup(dom)
        entry_type == IF Contains(EXAMPLES_PATTERN, relative_path) THEN T_Sample ELSE T_Guide
    IN IF Falsy(title) THEN <<>>
       ELSE <<IndexEntry(title, entry_type, relative_path)>>

\* --- MiscParser ---

MiscMatches(relative_path) == Contains(MISC_PATH_PATTERN, relative_path)

MiscEntryType(relative_path) ==
    IF Contains(S_migration, relative_path) THEN T_Guide
    ELSE IF Contains(S_changelog, relative_path) THEN T_Section
    ELSE IF Contains(S_faq, relative_path) THEN T_Guide
    ELSE T_Guide

MiscParse(dom, relative_path) ==
    LET title == get_title_from_soup(dom)
    IN IF Falsy(title) THEN <<>>
       ELSE <<IndexEntry(title, MiscEntryType(relative_path), relative_path)>>

\* --- DashAnchorParser ---

\* SKIP_NAMES
SKIP_NAMES ==
    {S_example, S_examples, S_see_also, S_signature, S_return, S_returns,
     S_parameters, S_props, S_properties}

\* Names longer than this are cut (parsers.py: len(entry_name) > 80)
MaxNameLen == 80
\* Characters kept in front of "..." (parsers.py: entry_name[:77])
KeptNameLen == 77

\* Length of the longest prefix of r made of \w characters
WordPrefixLen(r) ==
    CHOOSE n \in 0..Len(r) :
        /\ \A i \in 1..n : IsWordChar(r[i])
        /\ n = Len(r) \/ ~IsWordChar(r[n + 1])

\* "." of the re module matches everything except a newline
UpToNewline(r) == SplitFirst(r, <<"\n">>)

\* (\w+)/(.+) matched at the start of r: the two groups as a one-element
\* sequence, the empty sequence on no match
MatchKindAndName(r) ==
    LET n == WordPrefixLen(r)
        rest == SubSeq(r, n + 2, Len(r))
    IN IF n >= 1 /\ Len(r) >= n + 2 /\ r[n + 1] = "/" /\ UpToNewline(rest) # <<>>
       THEN <<[kind |-> SubSeq(r, 1, n), name |-> UpToNewline(rest)]>>
       ELSE <<>>

\* ANCHOR_PATTERN.match(name_attr) for //apple_ref/(?:cpp/)?(\w+)/(.+)
ANCHOR_PATTERN(name_attr) ==
    LET r == SubSeq(name_attr, Len(S_apple_ref) + 1, Len(name_attr))
        withCpp == IF StartsWith(r, S_cpp)
                   THEN MatchKindAndName(SubSeq(r, Len(S_cpp) + 1, Len(r)))
                   ELSE <<>>
    IN IF ~StartsWith(name_attr, S_apple_ref) THEN <<>>
       ELSE IF withCpp # <<>> THEN withCpp
       ELSE MatchKindAndName(r)

\* entry_name[:80] + "..." in the place of entry_name[:77] + "..."
TruncateLate(entry_name) ==
    IF Len(entry_name) > MaxNameLen
    THEN SubSeq(entry_name, 1, MaxNameLen) \o S_ellipsis
    ELSE entry_name

\* len(entry_name) > 80 -> entry_name[:77] + "..."
Truncate(entry_name) ==
    IF Len(entry_name) > MaxNameLen
    THEN SubSeq(entry_name, 1, KeptNameLen) \o S_ellipsis
    ELSE entry_name

\* The dashAnchor elements before and inside heading h, in document order
Anchors(h) == h.before \o h.markers

\* The id of the heading itself in the place of the id of the element that
\* follows the k-th dashAnchor
HeadingId(h, k) == h.id

\* anchor.find_next_sibling() of the k-th dashAnchor of Anchors(h), reduced
\* to the id it carries: the next sibling of the last dashAnchor in front
\* of the heading is the heading, that of the last dashAnchor inside it is
\* the heading's first child element, and a dashAnchor carries no id
NextSiblingId(h, k) ==
    IF k = Len(h.before) THEN h.id
    ELSE IF k < Len(Anchors(h)) THEN <<>>
    ELSE h.sibling

\* One iteration of the loop of DashAnchorParser.parse
ParseDashAnchor(h, k, relative_path) ==
    LET match == ANCHOR_PATTERN(Anchors(h)[k])
        entry_name == unquote(match[1].name)
        anchor_id == NextSiblingId(h, k)
        path == IF anchor_id # <<>> THEN relative_path \o <<"#">> \o anchor_id
                ELSE relative_path
    IN IF match = <<>> THEN <<>>
       ELSE IF Lower(entry_name) \in SKIP_NAMES THEN <<>>
       ELSE <<IndexEntry(Truncate(entry_name), match[1].kind, path)>>

DashAnchorMatches(relative_path) == EndsWith(relative_path, S_html)

DashAnchorParse(dom, relative_path) ==
    Flatten([i \in DOMAIN dom.headings |->
                Flatten([k \in DOMAIN Anchors(dom.headings[i]) |->
                            ParseDashAnchor(dom.headings[i], k, relative_path)])])

\* --- FallbackParser ---

FallbackMatches(relative_path) ==
    IF ~EndsWith(relative_path, S_html) THEN FALSE
    ELSE Contains(S_developers, relative_path)

FallbackParse(dom, relative_path) ==
    LET title == get_title_from_soup(dom)
    IN IF ~Falsy(title) /\ title \notin {S_Raycast_API, S_Raycast}
       THEN <<IndexEntry(title, T_Guide, relative_path)>>
       ELSE <<>>

\* --- ALL_PARSERS ---

ALL_PARSERS ==
    <<"DashAnchorParser", "APIReferenceParser", "UtilitiesParser",
      "GuideParser", "MiscParser", "FallbackParser">>

Matches(parser, relative_path) ==
    CASE parser = "DashAnchorParser" -> DashAnchorMatches(relative_path)
      [] parser = "APIReferenceParser" -> APIReferenceMatches(relative_path)
      [] parser = "UtilitiesParser" -> UtilitiesMatches(relative_path)
      [] parser = "GuideParser" -> GuideMatches(relative_path)
      [] parser = "MiscParser" -> MiscMatches(relative_path)
      [] parser = "FallbackParser" -> FallbackMatches(relative_path)

Parse(parser, dom, relative_path) ==
    CASE parser = "DashAnchorParser" -> DashAnchorParse(dom, relative_path)
      [] parser = "APIReferenceParser" -> APIReferenceParse(dom, relative_path)
      [] parser = "UtilitiesParser" -> UtilitiesParse(dom, relative_path)
      [] parser = "GuideParser" -> GuideParse(dom, relative_path)
      [] parser = "MiscParser" -> MiscParse(dom, relative_path)
      [] parser = "FallbackParser" -> FallbackParse(dom, relative_path)

\* Tag every entry a parser yields for a page with the parser and its
\* position in that parser's output
Tagged(parser, relative_path, out) ==
    [i \in DOMAIN out |->
        [parser |-> parser, page |-> relative_path, index |-> i, entry |-> out[i]]]

\* The inner loop when it stops at the first parser that yields an entry
PageEntriesFirstMatch(dom, relative_path) ==
    LET hits == {n \in DOMAIN ALL_PARSERS :
                    /\ Matches(ALL_PARSERS[n], relative_path)
                    /\ Parse(ALL_PARSERS[n], dom, relative_path) # <<>>}
        first == CHOOSE n \in hits : \A m \in hits : n <= m
    IN IF hits = {} THEN <<>>
       ELSE Tagged(ALL_PARSERS[first], relative_path,
                   Parse(ALL_PARSERS[first], dom, relative_path))

\* The inner loop of _collect_entries for one HTML file: the outputs of all
\* matching parsers, in the order of ALL_PARSERS
PageEntries(dom, relative_path) ==
    Flatten([n \in DOMAIN ALL_PARSERS |->
                IF Matches(ALL_PARSERS[n], relative_path)
                THEN Tagged(ALL_PARSERS[n], relative_path,
                            Parse(ALL_PARSERS[n], dom, relative_path))
                ELSE <<>>])

\* The tagged output of every parser for one HTML file, in the order of
\* ALL_PARSERS; the empty sequence for a parser that does not match
Outputs(dom, relative_path) ==
    [n \in DOMAIN ALL_PARSERS |->
        IF Matches(ALL_PARSERS[n], relative_path)
        THEN Tagged(ALL_PARSERS[n], relative_path,
                    Parse(ALL_PARSERS[n], dom, relative_path))
        ELSE <<>>]

\* The inner loop of _collect_entries for one HTML file when parse of the
\* parser at position failing raises after it has yielded its first
\* `after` entries: the warning is printed and the loop goes on with the
\* next parser
CollectEntries(outputs, failing, after) ==
    Flatten([n \in DOMAIN outputs |->
                IF n = failing THEN SubSeq(outputs[n], 1, after) ELSE outputs[n]])

\* ------------------------------------------------------------------------
\* Inputs: source trees
\* ------------------------------------------------------------------------

\* Heading texts, ids and file names used in the source trees
X_AI == <<"A", "I">>
X_useAI == <<"u", "s", "e", "A", "I">>
X_Examples == <<"E", "x", "a", "m", "p", "l", "e", "s">>
X_useNavigation == <<"u", "s", "e", "N", "a", "v", "i", "g", "a", "t", "i", "o", "n">>
X_ask_prompt == <<"a", "s", "k", "(", "p", "r", "o", "m", "p", "t", ")">>
X_beta_ask == <<"(", "b", "e", "t", "a", ")", " ", "a", "s", "k">>
X_ask_spaced == <<" ", "a", "s", "k", " ", "(", "p", "r", "o", "m", "p", "t", ")", " ">>
X_Example == <<"E", "x", "a", "m", "p", "l", "e">>
X_Model == <<"M", "o", "d", "e", "l">>
X_creativity == <<"c", "r", "e", "a", "t", "i", "v", "i", "t", "y">>
X_See_Also == <<"S", "e", "e", " ", "A", "l", "s", "o">>
X_Getting_Started == <<"G", "e", "t", "t", "i", "n", "g", " ", "S", "t", "a", "r", "t", "e", "d">>
X_FAQ == <<"F", "A", "Q">>
X_Parameters == <<"P", "a", "r", "a", "m", "e", "t", "e", "r", "s">>
X_Long80 == Repeat(<<"L", "o", "n", "g", " ">>, 15) \o <<"N", "a", "m", "e", "!">>
X_Long81 == Repeat(<<"L", "o", "n", "g", " ">>, 16) \o <<"!">>
X_styles_css == <<"s", "t", "y", "l", "e", "s", ".", "c", "s", "s">>
X_images_logo == <<"i", "m", "a", "g", "e", "s", "/", "l", "o", "g", "o", ".", "p", "n", "g">>
X_On_this_page == <<"O", "n", " ", "t", "h", "i", "s", " ", "p", "a", "g", "e">>
X_Quick_Start == <<"Q", "u", "i", "c", "k">> \o S_dash \o <<"S", "t", "a", "r", "t">> \o S_bar \o S_Raycast_API
X_Changelog == <<"C", "h", "a", "n", "g", "e", "l", "o", "g">>
I_on_this_page == <<"o", "n", "-", "t", "h", "i", "s", "-", "p", "a", "g", "e">>
I_long == <<"l", "o", "n", "g">>
I_ai == <<"a", "i">>
I_useai == <<"u", "s", "e", "a", "i">>
I_ask == <<"a", "s", "k">>
I_beta == <<"b", "e", "t", "a">>
I_model == <<"m", "o", "d", "e", "l">>
I_see_also == <<"s", "e", "e", "-", "a", "l", "s", "o">>
I_getting_started == <<"g", "e", "t", "t", "i", "n", "g", "-", "s", "t", "a", "r", "t", "e", "d">>
I_usenavigation == <<"u", "s", "e", "n", "a", "v", "i", "g", "a", "t", "i", "o", "n">>
N_index == <<"i", "n", "d", "e", "x">>
N_navigation == <<"n", "a", "v", "i", "g", "a", "t", "i", "o", "n">>
N_logo_png == <<"l", "o", "g", "o", ".", "p", "n", "g">>
N_notes == <<"n", "o", "t", "e", "s">>
N_quick_start == <<"q", "u", "i", "c", "k", "-", "s", "t", "a", "r", "t">>

\* Paths relative to the source Documents directory
P_api_ai == S_developers \o <<"/">> \o API_PATH_PATTERN \o I_ai \o S_html
P_api_ui == S_developers \o <<"/">> \o API_PATH_PATTERN \o S_user_interface \o <<"/">> \o N_navigation \o S_html
P_util_oauth == S_developers \o <<"/">> \o UTILITIES_PATH_PATTERN \o S_oauth \o <<"/">> \o N_index \o S_html
P_examples == S_developers \o <<"/">> \o EXAMPLES_PATTERN \o N_index \o S_html
P_misc == S_developers \o <<"/">> \o MISC_PATH_PATTERN \o S_changelog \o S_html
P_index == S_developers \o <<"/">> \o N_index \o S_html
P_guide_ai == S_developers \o <<"/">> \o AI_PATTERN \o N_index \o S_html
P_faq == S_developers \o <<"/">> \o MISC_PATH_PATTERN \o S_faq \o S_html
P_logo == S_developers \o <<"/">> \o N_logo_png
P_flat_api == API_PATH_PATTERN \o I_ai \o S_html
P_flat_notes == N_notes \o S_html
P_quick_start == S_developers \o <<"/">> \o N_quick_start \o S_html
P_migration_changelog ==
    S_developers \o <<"/">> \o MISC_PATH_PATTERN \o S_migration \o <<"/">> \o S_changelog \o S_html

\* A file of the source tree: its path, whether it can be read (a broken
\* symbolic link cannot), and its parsed content
SourceFile(path, readable, dom) == [path |-> path, readable |-> readable, dom |-> dom]

NoDom == Dom(None, FALSE, <<>>)

\* A page that refers to a style sheet and to an image by relative paths
Linked(dom) == [dom EXCEPT !.refs = <<X_styles_css, X_images_logo>>]

\* Level-1 headings a page of PageSpace may start with
H1Choices ==
    {<<>>,
     <<Heading(1, I_ai, X_AI, FALSE, <<>>)>>,
     <<Heading(1, I_useai, X_useAI, FALSE, <<>>)>>,
     <<Heading(1, S_examples, X_Examples, FALSE, <<>>)>>,
     <<Heading(1, <<>>, S_Raycast_API, FALSE, <<>>)>>}

\* Headings that may follow it
MemberChoices ==
    {<<>>,
     <<Heading(2, I_ask, X_ask_prompt, FALSE, <<>>)>>,
     <<Heading(2, <<>>, X_ask_prompt, FALSE, <<>>)>>,
     <<Heading(2, I_beta, X_beta_ask, FALSE, <<>>)>>,
     <<Heading(3, I_ask, X_ask_spaced, FALSE, <<>>)>>,
     <<Heading(3, S_example, X_Example, FALSE, <<>>)>>,
     <<Heading(2, I_model, X_Model, FALSE, <<>>)>>,
     <<Heading(4, X_creativity, X_creativity, FALSE, <<>>)>>,
     <<Heading(2, I_see_also, X_See_Also, TRUE, <<>>)>>,
     <<Heading(2, I_on_this_page, X_On_this_page, TRUE, <<>>)>>,
     <<Heading(3, I_getting_started, X_Getting_Started, FALSE, I_getting_started)>>,
     <<Heading(2, S_parameters, X_Parameters, FALSE, <<>>)>>,
     <<Heading(2, I_long, X_Long80, FALSE, <<>>)>>,
     <<Heading(3, I_long, X_Long81, FALSE, <<>>)>>}

TitleChoices == {None, X_AI \o S_bar \o S_Raycast_API}

PathChoices ==
    {P_api_ai, P_api_ui, P_util_oauth, P_examples, P_misc, P_index, P_flat_api, P_flat_notes}

\* Every readable page made of one path, one optional level-1 heading, one
\* optional further heading and one optional <title>
PageSpace ==
    {SourceFile(path, TRUE, Linked(Dom(title, title # None, h1 \o member))) :
        path \in PathChoices, h1 \in H1Choices,
        member \in MemberChoices, title \in TitleChoices}

\* Files that source trees of several files are made of
Catalogue ==
    {SourceFile(P_api_ai, TRUE,
                Linked(Dom(X_AI \o S_bar \o S_Raycast_API, TRUE,
                           <<Heading(1, I_ai, X_AI, FALSE, <<>>),
                             Heading(2, I_ask, X_ask_prompt, FALSE, <<>>),
                             Heading(3, S_example, X_Example, FALSE, <<>>)>>))),
     SourceFile(P_guide_ai, TRUE,
                Dom(None, FALSE, <<Heading(1, I_ai, X_AI, FALSE, <<>>)>>)),
     SourceFile(P_examples, TRUE,
                Dom(None, FALSE, <<Heading(1, S_examples, X_Examples, FALSE, <<>>)>>)),
     SourceFile(P_api_ui, TRUE,
                Dom(None, FALSE,
                    <<Heading(2, I_see_also, X_See_Also, TRUE, <<>>),
                      Heading(1, I_usenavigation, X_useNavigation, FALSE, <<>>)>>)),
     SourceFile(P_faq, FALSE,
                Dom(None, FALSE, <<Heading(1, S_faq, X_FAQ, FALSE, <<>>)>>)),
     SourceFile(P_logo, TRUE, NoDom),
     SourceFile(P_quick_start, TRUE, Dom(X_Quick_Start, TRUE, <<>>)),
     SourceFile(P_migration_changelog, TRUE,
                Dom(None, FALSE, <<Heading(1, S_changelog, X_Changelog, FALSE, <<>>)>>)),
     SourceFile(P_flat_notes, TRUE,
                Linked(Dom(None, FALSE, <<Heading(1, I_ai, X_AI, FALSE, <<>>)>>)))}

\* Largest number of files in a source tree made from Catalogue
MaxFiles == 2

\* The source trees: no two files of a tree have the same path
Trees ==
    {t \in SUBSET Catalogue : Cardinality(t) <= MaxFiles} \cup {{f} : f \in PageSpace}

\* ------------------------------------------------------------------------
\* State
\* ------------------------------------------------------------------------

VARIABLES
    source,         \* what lies at the source docset path
    aliased,        \* the source docset path is output_dir/<name>.docset
    original,       \* the files under source_docs_dir before the first run
    rerun,          \* the build is running for the second time
    prev,           \* the files under documents_dir when this run began
    contrib,        \* the contribution directory: file name -> content
    tree,           \* the files under source_docs_dir
    pc,             \* the step of main and DocsetBuilder.build that runs next
    error,          \* the message of the error that ended the run, "none" so far
    pending,        \* _copy_documents: paths rglob has not produced yet
    docs,           \* the files under documents_dir: path -> content
    raised,         \* paths whose _copy_html_with_toc try block raised
    plist,          \* Contents/Info.plist exists
    icon,           \* icon.png and icon@2x.png exist
    rows,           \* searchIndex as the open connection sees it
    disk,           \* searchIndex as committed to docSet.dsidx
    entries_count,  \* entries_count of _create_index
    todo,           \* _collect_entries: html_files not visited yet
    visited,        \* _collect_entries: html_files visited, in order
    queue,          \* entries of the current page not yet yielded
    yielded,        \* every entry _collect_entries has yielded
    stream,         \* the entries _collect_entries has yielded, in order
    warnings        \* the parsers whose parse raised: page, parser, entries yielded before

vars ==
    <<source, aliased, original, rerun, prev, contrib, tree, pc, error, pending,
      docs, raised, plist, icon, rows, disk, entries_count, todo, visited, queue,
      yielded, stream, warnings>>

\* What no step of a run changes
env == <<source, aliased, original, rerun, prev, contrib>>

\* ------------------------------------------------------------------------
\* Index assembler: the searchIndex table
\* ------------------------------------------------------------------------

\* The columns of the unique index "anchor"
Key(r) == <<r.name, r.type, r.path>>

EntryKey(e) == <<e.name, e.entry_type, e.path>>

\* The rowid SQLite gives a new row of an INTEGER PRIMARY KEY table
NextRowId(rs) ==
    IF rs = <<>> THEN 1
    ELSE 1 + (CHOOSE m \in {rs[i].id : i \in DOMAIN rs} : \A i \in DOMAIN rs : rs[i].id <= m)

NewRow(rs, e) == [id |-> NextRowId(rs), name |-> e.name, type |-> e.entry_type, path |-> e.path]

\* A store without the unique index: every insert adds a row
InsertAlways(rs, e) == Append(rs, NewRow(rs, e))

\* INSERT OR REPLACE: the stored row gives way to a new row with a new id
InsertOrReplace(rs, e) ==
    Append(SelectSeq(rs, LAMBDA r : Key(r) # EntryKey(e)), NewRow(rs, e))

\* A unique index on the name column alone
InsertOrIgnoreByName(rs, e) ==
    IF \E i \in DOMAIN rs : rs[i].name = e.name
    THEN rs
    ELSE Append(rs, NewRow(rs, e))

\* INSERT OR IGNORE INTO searchIndex(name, type, path) VALUES (?, ?, ?)
\* under CREATE UNIQUE INDEX anchor ON searchIndex (name, type, path)
InsertOrIgnore(rs, e) ==
    IF \E i \in DOMAIN rs : Key(rs[i]) = EntryKey(e)
    THEN rs
    ELSE Append(rs, NewRow(rs, e))

\* ------------------------------------------------------------------------
\* DocsetBuilder.build
\* ------------------------------------------------------------------------

\* The files of a directory as a function from path to content
FilesOf(files) ==
    [path \in {f.path : f \in files} |-> (CHOOSE f \in files : f.path = path).dom]

Init ==
    /\ source \in {"missing", "no_documents", "docset"}
    /\ IF source = "docset"
       THEN tree \in Trees /\ aliased \in BOOLEAN
       ELSE tree = {} /\ aliased = FALSE
    /\ original = tree
    /\ rerun = FALSE
    /\ prev = <<>>
    /\ contrib = <<>>
    /\ pc = "main"
    /\ error = "none"
    /\ pending = {}
    /\ docs = IF aliased THEN FilesOf(tree) ELSE <<>>
    /\ raised = {}
    /\ plist = FALSE
    /\ icon = FALSE
    /\ rows = <<>>
    /\ disk = <<>>
    /\ entries_count = 0
    /\ todo = {}
    /\ visited = <<>>
    /\ queue = <<>>
    /\ yielded = {}
    /\ stream = <<>>
    /\ warnings = {}

\* main with --source: a source path that does not exist ends the run with
\* status 1 and the message "Error: Source not found: <source>"
Main ==
    /\ pc = "main"
    /\ IF source = "missing"
       THEN pc' = "failed" /\ error' = "Source not found"
       ELSE pc' = "build_docset" /\ UNCHANGED error
    /\ UNCHANGED <<env, tree, pending, docs, raised, plist, icon, rows, disk,
                   entries_count, todo, visited, queue, yielded, stream, warnings>>

\* build_docset without the test of source_docs.exists()
SourceDocsAssumed == TRUE

\* source_docs.exists() in build_docset
SourceDocsExist == source = "docset"

\* build_docset when the docset directory is removed before the test of
\* source_docs.exists()
BuildDocsetAfterCleanup ==
    /\ pc = "build_docset"
    /\ docs' = <<>>
    /\ plist' = FALSE
    /\ icon' = FALSE
    /\ disk' = <<>>
    /\ IF SourceDocsExist
       THEN pc' = "_create_structure" /\ UNCHANGED error
       ELSE pc' = "failed" /\ error' = "Source documents not found"
    /\ UNCHANGED <<env, tree, pending, raised, rows,
                   entries_count, todo, visited, queue, yielded, stream, warnings>>

\* build_docset up to builder.build(): without Contents/Resources/Documents
\* it raises ValueError, which main reports before it returns 1
BuildDocset ==
    /\ pc = "build_docset"
    /\ IF SourceDocsExist
       THEN pc' = "_create_structure" /\ UNCHANGED error
       ELSE pc' = "failed" /\ error' = "Source documents not found"
    /\ UNCHANGED <<env, tree, pending, docs, raised, plist, icon, rows, disk,
                   entries_count, todo, visited, queue, yielded, stream, warnings>>

\* _copy_documents: the directory developers.raycast.com exists in the source
HasRaycastDocs == \E f \in tree : StartsWith(f.path, S_developers \o <<"/">>)

\* _copy_documents: the paths source_root.rglob("*") produces that are files
SourcePaths ==
    IF HasRaycastDocs
    THEN {f.path : f \in {g \in tree : StartsWith(g.path, S_developers \o <<"/">>)}}
    ELSE {f.path : f \in tree}

FileAt(path) == CHOOSE f \in tree : f.path = path

\* _create_structure: the docset directory is removed with everything in
\* it, the source when it is that directory, and created empty
CreateStructure ==
    /\ pc = "_create_structure"
    /\ tree' = IF aliased THEN {} ELSE tree
    /\ docs' = <<>>
    /\ plist' = FALSE
    /\ icon' = FALSE
    /\ rows' = <<>>
    /\ disk' = <<>>
    /\ pending' = IF aliased THEN {} ELSE SourcePaths
    /\ pc' = "_copy_documents"
    /\ UNCHANGED <<env, error, raised, entries_count, todo, visited, queue,
                   yielded, stream, warnings>>

\* source_file.read_text(): the second run reads the output of the first
ReadOutput(path) == IF path \in DOMAIN prev THEN prev[path] ELSE FileAt(path).dom

\* source_file.read_text()
ReadSource(path) == FileAt(path).dom

\* _copy_html_with_toc for a readable page: the try block runs to its end
\* and writes the transformed document, or one of its steps raises and the
\* except block copies the source file
CopyHtmlWithToc(path) ==
    /\ FileAt(path).readable
    /\ \E stepRaises \in BOOLEAN :
        /\ docs' = (path :> (IF stepRaises THEN FileAt(path).dom
                             ELSE Transform(_fix_paths(ReadSource(path), path)))) @@ docs
        /\ raised' = IF stepRaises THEN raised \cup {path} ELSE raised
    /\ pending' = pending \ {path}
    /\ pc' = IF pending' = {} THEN "_create_info_plist" ELSE pc
    /\ UNCHANGED error

\* _copy_html_with_toc for a page that cannot be read: read_text raises
\* OSError, and so does shutil.copy2 in the except block; nothing catches it
CopyHtmlUnreadable(path) ==
    /\ ~FileAt(path).readable
    /\ raised' = raised \cup {path}
    /\ pc' = "failed"
    /\ error' = "OSError"
    /\ UNCHANGED <<docs, pending>>

\* shutil.copy2 of a file that is not a page
CopyOther(path) ==
    /\ IF FileAt(path).readable
       THEN /\ docs' = (path :> FileAt(path).dom) @@ docs
            /\ pending' = pending \ {path}
            /\ pc' = IF pending' = {} THEN "_create_info_plist" ELSE pc
            /\ UNCHANGED error
       ELSE /\ pc' = "failed"
            /\ error' = "OSError"
            /\ UNCHANGED <<docs, pending>>
    /\ UNCHANGED raised

\* One iteration of the loop of _copy_documents; rglob fixes no order
CopyDocuments ==
    /\ pc = "_copy_documents"
    /\ \/ /\ pending = {}
          /\ pc' = "_create_info_plist"
          /\ UNCHANGED <<error, pending, docs, raised>>
       \/ \E path \in pending :
            IF EndsWith(path, S_html)
            THEN CopyHtmlWithToc(path) \/ CopyHtmlUnreadable(path)
            ELSE CopyOther(path)
    /\ UNCHANGED <<env, tree, plist, icon, rows, disk, entries_count, todo, visited,
                   queue, yielded, stream, warnings>>

\* _create_info_plist
CreateInfoPlist ==
    /\ pc = "_create_info_plist"
    /\ plist' = TRUE
    /\ pc' = "_setup_icon"
    /\ UNCHANGED <<env, tree, error, pending, docs, raised, icon, rows, disk,
                   entries_count, todo, visited, queue, yielded, stream, warnings>>

\* _setup_icon: the download succeeds, or fails with a warning
SetupIcon ==
    /\ pc = "_setup_icon"
    /\ icon' \in BOOLEAN
    /\ pc' = "_create_index"
    /\ UNCHANGED <<env, tree, error, pending, docs, raised, plist, rows, disk,
                   entries_count, todo, visited, queue, yielded, stream, warnings>>

\* _create_index up to its loop: the database is created with an empty
\* searchIndex, and _collect_entries lists the HTML files under Documents
CreateIndex ==
    /\ pc = "_create_index"
    /\ rows' = <<>>
    /\ disk' = <<>>
    /\ entries_count' = 0
    /\ todo' = {path \in DOMAIN docs : EndsWith(path, S_html)}
    /\ visited' = <<>>
    /\ queue' = <<>>
    /\ pc' = "_collect_entries"
    /\ UNCHANGED <<env, tree, error, pending, docs, raised, plist, icon, yielded, stream, warnings>>

\* _collect_entries moves to the next HTML file and runs the matching
\* parsers on it; rglob fixes no order
NextPage ==
    /\ pc = "_collect_entries"
    /\ queue = <<>>
    /\ \E path \in todo :
        /\ todo' = todo \ {path}
        /\ visited' = Append(visited, path)
        /\ queue' = PageEntries(docs[path], path)
    /\ UNCHANGED <<env, tree, pc, error, pending, docs, raised, plist, icon, rows,
                   disk, entries_count, yielded, stream, warnings>>

\* One iteration of the loop of _create_index: the next entry is inserted
\* and counted, or execute raises an sqlite3 error that is not an
\* IntegrityError (disk full, I/O error), which nothing catches
InsertEntry ==
    /\ pc = "_collect_entries"
    /\ queue # <<>>
    /\ yielded' = yielded \cup {Head(queue)}
    /\ stream' = Append(stream, Head(queue))
    /\ \/ /\ rows' = InsertOrIgnore(rows, Head(queue).entry)
          /\ entries_count' = entries_count + 1
          /\ queue' = Tail(queue)
          /\ UNCHANGED <<pc, error>>
       \/ /\ pc' = "failed"
          /\ error' = "sqlite3.OperationalError"
          /\ UNCHANGED <<rows, entries_count, queue>>
    /\ UNCHANGED <<env, tree, pending, docs, raised, plist, icon, disk, todo,
                   visited, warnings>>

\* The end of _create_index: conn.commit(), conn.close() and the report
Commit ==
    /\ pc = "_collect_entries"
    /\ queue = <<>>
    /\ todo = {}
    /\ disk' = rows
    /\ pc' = "done"
    /\ UNCHANGED <<env, tree, error, pending, docs, raised, plist, icon, rows,
                   entries_count, todo, visited, queue, yielded, stream, warnings>>

Next ==
    \/ Main
    \/ BuildDocset
    \/ CreateStructure
    \/ CopyDocuments
    \/ CreateInfoPlist
    \/ SetupIcon
    \/ CreateIndex
    \/ NextPage
    \/ InsertEntry
    \/ Commit

Spec == Init /\ [][Next]_vars

\* main is invoked again with the same arguments after a finished run: the
\* files of the first run are still there, the rest starts afresh
Rebuild ==
    /\ pc = "done"
    /\ ~rerun
    /\ rerun' = TRUE
    /\ prev' = docs
    /\ pc' = "main"
    /\ error' = "none"
    /\ pending' = {}
    /\ raised' = {}
    /\ rows' = <<>>
    /\ entries_count' = 0
    /\ todo' = {}
    /\ visited' = <<>>
    /\ queue' = <<>>
    /\ yielded' = {}
    /\ stream' = <<>>
    /\ warnings' = {}
    /\ UNCHANGED <<source, aliased, original, contrib, tree, docs, plist, icon, disk>>

NextTwice == Next \/ Rebuild

\* _collect_entries moves to the next HTML file, and parse of one of the
\* matching parsers raises there, at its start or after any of its yields;
\* it is the one failure of the run
NextPageRaising ==
    /\ pc = "_collect_entries"
    /\ queue = <<>>
    /\ warnings = {}
    /\ \E path \in todo :
        \E outputs \in {Outputs(docs[path], path)}, failing \in DOMAIN ALL_PARSERS :
        /\ Matches(ALL_PARSERS[failing], path)
        /\ \E after \in 0..Len(outputs[failing]) :
            /\ todo' = todo \ {path}
            /\ visited' = Append(visited, path)
            /\ queue' = CollectEntries(outputs, failing, after)
            /\ warnings' = warnings \cup
                    {[page |-> path, parser |-> ALL_PARSERS[failing], after |-> after]}
    /\ UNCHANGED <<env, tree, pc, error, pending, docs, raised, plist, icon, rows,
                   disk, entries_count, yielded, stream>>

NextRaising == Next \/ NextPageRaising

\* The build when the parse of a parser may raise
SpecRaising == Init /\ [][NextRaising]_vars

\* The build run twice in a row
SpecTwice == Init /\ [][NextTwice]_vars

\* The pages and the committed rows of a docset that an earlier build left
\* at output_dir/<name>.docset
OldDocs == P_index :> Transform(Dom(None, FALSE, <<Heading(1, I_ai, X_AI, FALSE, <<>>)>>))
OldRows == <<[id |-> 1, name |-> X_AI, type |-> T_Guide, path |-> P_index]>>

\* main is invoked while output_dir/<name>.docset holds that docset, with
\* its Info.plist and icon; the source lies elsewhere
InitExisting ==
    /\ source \in {"missing", "no_documents", "docset"}
    /\ tree \in (IF source = "docset" THEN Trees ELSE {{}})
    /\ aliased = FALSE
    /\ original = tree
    /\ rerun = FALSE
    /\ prev = <<>>
    /\ contrib = <<>>
    /\ pc = "main"
    /\ error = "none"
    /\ pending = {}
    /\ docs = OldDocs
    /\ raised = {}
    /\ plist = TRUE
    /\ icon = TRUE
    /\ rows = <<>>
    /\ disk = OldRows
    /\ entries_count = 0
    /\ todo = {}
    /\ visited = <<>>
    /\ queue = <<>>
    /\ yielded = {}
    /\ stream = <<>>
    /\ warnings = {}

\* The build over an existing docset
SpecExisting == InitExisting /\ [][Next]_vars

\* ------------------------------------------------------------------------
\* contribute.py: prepare_contribution
\* ------------------------------------------------------------------------

S_tgz == <<".", "t", "g", "z">>

\* json.load(f): the value a JSON text stands for
json_load(text) == text.data

\* json.dump(obj, f, indent=indent): a valid JSON text with that layout
json_dump(obj, indent) == [indent |-> indent, valid |-> TRUE, data |-> obj]

\* The dictionary written when docset.json does not exist
NewDocsetJson(docset_name, version) ==
    [name |-> docset_name,
     version |-> version,
     archive |-> docset_name \o S_tgz,
     author |-> [name |-> "Ismar Iljazovic",
                 link |-> "https://github.com/ichoosetoaccept"],
     aliases |-> <<Lower(docset_name)>>]

\* docset.json rewritten from the template whether or not it exists
ReplaceDocsetJson(docset_json, version) == NewDocsetJson(docset_json.name, version)

\* docset_json["version"] = version on the loaded dictionary
UpdateDocsetJson(docset_json, version) ==
    IF "version" \in DOMAIN docset_json
    THEN [docset_json EXCEPT !["version"] = version]
    ELSE ("version" :> version) @@ docset_json

\* Values of --version
Versions == {"1.33", "1.34", "1.35"}

\* Dictionaries an existing docset.json may hold: the one a former call
\* wrote, one edited by hand as in test_version_update_preserves_other_fields,
\* one with a key the program does not know, one without "version"
ExistingDicts ==
    LET written == NewDocsetJson(S_Raycast, "1.33")
        edited == [name |-> S_Raycast, version |-> "1.33",
                   archive |-> S_Raycast \o S_tgz,
                   author |-> [name |-> "Test", link |-> "https://example.com"],
                   aliases |-> <<Lower(S_Raycast), Lower(S_Raycast_API)>>,
                   specific_versions |-> <<"1.32", "1.33">>]
    IN {written,
        edited,
        ("homepage" :> "https://developers.raycast.com") @@ edited,
        [name |-> S_Raycast, archive |-> S_Raycast \o S_tgz,
         aliases |-> <<Lower(S_Raycast)>>]}

\* Texts an existing docset.json may hold: a dictionary laid out with an
\* indent of 2 or 4, or a text that is not JSON
ExistingJsons ==
    {[indent |-> n, valid |-> TRUE, data |-> d] : n \in {2, 4}, d \in ExistingDicts}
        \cup {[indent |-> 0, valid |-> FALSE, data |-> <<>>]}

\* The contribution directory docsets/<name> before a call
ContribDirs ==
    {j @@ r @@ a :
        j \in {<<>>} \cup {("docset.json" :> t) : t \in ExistingJsons},
        r \in {<<>>, ("README.md" :> "custom")},
        a \in {<<>>, ("Raycast.tgz" :> "archive of an older docset")}}

\* contribute.py starts on a built docset, with or without icons
ContribInit ==
    /\ source = "docset"
    /\ aliased = FALSE
    /\ original = {}
    /\ rerun = FALSE
    /\ prev = <<>>
    /\ contrib \in ContribDirs
    /\ tree = {}
    /\ pc = "prepare_contribution"
    /\ error = "none"
    /\ pending = {}
    /\ docs = <<>>
    /\ raised = {}
    /\ plist = TRUE
    /\ icon \in BOOLEAN
    /\ rows = <<>>
    /\ disk = <<>>
    /\ entries_count = 0
    /\ todo = {}
    /\ visited = <<>>
    /\ queue = <<>>
    /\ yielded = {}
    /\ stream = <<>>
    /\ warnings = {}

\* prepare_contribution: the archive is written, the icons are copied,
\* docset.json is updated or created, README.md is created when absent; a
\* docset.json that is not JSON makes json.load raise before it is opened
\* for writing
PrepareContribution ==
    /\ pc = "prepare_contribution"
    /\ \E version \in Versions :
        LET icons == IF icon
                     THEN ("icon.png" :> "icon") @@ ("icon@2x.png" :> "icon@2x")
                     ELSE <<>>
            packed == ("Raycast.tgz" :> "archive of the docset") @@ icons @@ contrib
            docset_json ==
                IF "docset.json" \in DOMAIN contrib
                THEN UpdateDocsetJson(json_load(contrib["docset.json"]), version)
                ELSE NewDocsetJson(S_Raycast, version)
            written == ("docset.json" :> json_dump(docset_json, 4)) @@ packed
        IN IF "docset.json" \in DOMAIN contrib /\ ~contrib["docset.json"].valid
           THEN /\ contrib' = packed
                /\ pc' = "failed"
                /\ error' = "json.JSONDecodeError"
           ELSE /\ contrib' = IF "README.md" \in DOMAIN contrib THEN written
                              ELSE ("README.md" :> "generated") @@ written
                /\ pc' = "prepared"
                /\ UNCHANGED error
    /\ UNCHANGED <<source, aliased, original, rerun, prev, tree, pending, docs, raised,
                   plist, icon, rows, disk, entries_count, todo, visited, queue,
                   yielded, stream, warnings>>

\* contribute.py is run again on the directory it has prepared
ContributeAgain ==
    /\ pc = "prepared"
    /\ pc' = "prepare_contribution"
    /\ UNCHANGED <<env, tree, error, pending, docs, raised, plist, icon, rows, disk,
                   entries_count, todo, visited, queue, yielded, stream, warnings>>

NextContribute == PrepareContribution \/ ContributeAgain

SpecContribute == ContribInit /\ [][NextContribute]_vars

\* ------------------------------------------------------------------------
\* Properties
\* ------------------------------------------------------------------------

\* The keys of a table
Keys(rs) == {Key(rs[i]) : i \in DOMAIN rs}

\* The key at the head of the entry stream is already stored
HeadIsStored == queue # <<>> /\ EntryKey(Head(queue).entry) \in Keys(rows)

\* The HTML files under Documents
HtmlDocs == {path \in DOMAIN docs : EndsWith(path, S_html)}

\* C1: no two rows of searchIndex have the same (name, type, path), in the
\* open connection after every insert and in the committed table.
C1_UniqueKeys ==
    /\ \A i, j \in DOMAIN rows : i # j => Key(rows[i]) # Key(rows[j])
    /\ \A i, j \in DOMAIN disk : i # j => Key(disk[i]) # Key(disk[j])

\* C1 witness: indexing is under way, a repeated triple has been offered
\* and the table holds several rows.
C1_Witness ==
    pc = "_collect_entries" /\ entries_count > Len(rows) /\ Len(rows) >= 2

\* C2: a step of the insert loop taken when the key of the next entry is
\* already stored leaves every row and every id as it was, never ends in an
\* IntegrityError, and goes on to the rest of the stream; the only way the
\* run can end at that step is a fault of the store itself (see C4).
C2_DuplicateIgnored ==
    [][HeadIsStored =>
          /\ rows' = rows
          /\ error' # "sqlite3.IntegrityError"
          /\ pc' = "failed" => error' = "sqlite3.OperationalError"
          /\ pc' # "failed" => pc' = "_collect_entries" /\ queue' = Tail(queue)]_vars

\* C2 witness: a run that met a stored key, ignored it and went on to commit.
C2_Witness == pc = "done" /\ entries_count > Len(rows) /\ Len(rows) >= 1

\* C3: the count reported at the end of _create_index ("Indexed N entries")
\* is the number of rows persisted in searchIndex.
C3_CountIsPersistedRows == pc = "done" => entries_count = Len(disk)

\* C4: a failure while inserting one entry does not abort indexing: no
\* later entry of the stream is left unoffered.
C4_InsertFailureDoesNotAbort ==
    (pc = "failed" /\ error = "sqlite3.OperationalError") =>
        (Len(queue) <= 1 /\ todo = {})

\* The keys the parsers propose for one HTML file, and for all HTML files
\* under Documents
ProposedKeys(path) ==
    LET q == PageEntries(docs[path], path)
    IN {EntryKey(q[i].entry) : i \in DOMAIN q}

ExpectedKeys == UNION {ProposedKeys(path) : path \in HtmlDocs}

\* C5: whatever the order in which the pages were visited, the finished
\* store holds exactly the keys the parsers propose for the pages under
\* Documents.
C5_OrderIrrelevant == pc = "done" => Keys(disk) = ExpectedKeys

\* C5 witness: a finished run over two pages, each of which has a row.
C5_Witness ==
    /\ pc = "done"
    /\ Len(visited) = 2
    /\ \A n \in {1, 2} : \E i \in DOMAIN disk : StartsWith(disk[i].path, visited[n])

\* C6: when indexing stops early after k entries were accepted, the store
\* on disk holds those k entries.
C6_AcceptedRowsDurable ==
    (pc = "failed" /\ error = "sqlite3.OperationalError") => disk = rows

\* C7: when a step of _copy_html_with_toc raises for a page, the
\* destination is a copy of the source page and the run is not aborted.
C7_FailedPageCopiedVerbatim ==
    \A path \in raised :
        /\ pc # "failed"
        /\ path \in DOMAIN docs
        /\ docs[path] = FileAt(path).dom

\* C8: a heading whose stripped text is, case-insensitively, "see also",
\* "example" or "examples" never gives its text to the name of an entry.
C8_DenyListedNeverEmitted ==
    \A y \in yielded :
        \A i \in DOMAIN docs[y.page].headings :
            LET text == Strip(docs[y.page].headings[i].text)
            IN Lower(text) \in ExtractorSkipHeadings => y.entry.name # text

\* C9: on a page under api-reference/ whose level-1 heading starts with
\* "use", the page-level entry of the API-reference rule has type Function.
C9_HookPageIsFunction ==
    \A y \in yielded :
        (/\ y.parser = "APIReferenceParser"
         /\ y.index = 1
         /\ FirstH1(docs[y.page]) # <<>>
         /\ StartsWith(Strip(FirstH1(docs[y.page])[1].text), S_use))
        => y.entry.entry_type = T_Function

\* The text holds "(" with a ")" somewhere after it
HasArgumentList(text) ==
    \E i, j \in DOMAIN text : i < j /\ text[i] = "(" /\ text[j] = ")"

\* C10: once an API-reference page with title T has been indexed, every
\* level 2-4 heading with an id and an argument list has yielded
\* (T + "." + member, "Function", path + "#" + id), where member is the
\* heading text before its first "(" and is not empty.
C10_FunctionMembers ==
    pc = "done" =>
        \A path \in HtmlDocs :
            \A i \in DOMAIN docs[path].headings :
                LET h == docs[path].headings[i]
                    T == get_title_from_soup(docs[path])
                    member == SplitFirst(Strip(h.text), <<"(">>)
                IN (/\ APIReferenceMatches(path)
                    /\ ~Falsy(T)
                    /\ h.level \in {2, 3, 4}
                    /\ h.id # <<>>
                    /\ HasArgumentList(Strip(h.text)))
                   => /\ member # <<>>
                      /\ \E y \in yielded :
                            /\ y.parser = "APIReferenceParser"
                            /\ y.page = path
                            /\ y.entry = IndexEntry(T \o <<".">> \o member, T_Function,
                                                    path \o <<"#">> \o h.id)

\* Every character is unreserved or starts a "%XX" escape
PercentEncoded(s) ==
    \A i \in DOMAIN s :
        \/ IsWordChar(s[i])
        \/ s[i] \in {".", "-", "~"}
        \/ s[i] = "%" /\ i + 2 <= Len(s) /\ IsHexChar(s[i + 1]) /\ IsHexChar(s[i + 2])

\* The kind of the marker of a heading
MarkerKind(h) == IF h.level = 1 THEN T_Guide ELSE T_Section

\* Marker m of heading h reads //apple_ref/cpp/<kind>/<encoded text>, and
\* decoding the last segment gives the stripped heading text back
MarkerWellFormed(h, m) ==
    LET pre == S_apple_ref \o S_cpp \o MarkerKind(h) \o <<"/">>
        enc == SubSeq(m, Len(pre) + 1, Len(m))
    IN /\ StartsWith(m, pre)
       /\ PercentEncoded(enc)
       /\ unquote(enc) = Strip(h.text)

\* The name of the entry replayed from a heading text
ReplayedName(text) ==
    IF Len(text) <= MaxNameLen THEN text
    ELSE SubSeq(text, 1, KeptNameLen) \o <<".", ".", ".">>

\* Anchor-replay has yielded, for the page, an entry of the kind of heading
\* h named after its text
MarkerReplayed(path, h) ==
    \E y \in yielded :
        /\ y.parser = "DashAnchorParser"
        /\ y.page = path
        /\ y.entry.entry_type = MarkerKind(h)
        /\ y.entry.name = ReplayedName(Strip(h.text))

\* The headings of the pages under Documents that carry a marker
MarkedHeadings ==
    UNION {{<<path, docs[path].headings[i]>> :
               i \in {j \in DOMAIN docs[path].headings :
                          docs[path].headings[j].markers # <<>>}} :
           path \in HtmlDocs}

\* C11 as stated: after a finished run every marker the extractor injected
\* reads //apple_ref/cpp/<kind>/<percent-encoded heading text>, and
\* anchor-replay has yielded an entry with that kind and that text (cut to
\* 77 characters and "..." beyond 80).
C11_EveryMarkerReplayed ==
    pc = "done" =>
        \A ph \in MarkedHeadings :
            /\ \A k \in DOMAIN ph[2].markers : MarkerWellFormed(ph[2], ph[2].markers[k])
            /\ MarkerReplayed(ph[1], ph[2])

\* C11: after a finished run every marker the extractor injected reads
\* //apple_ref/cpp/<kind>/<percent-encoded heading text> and decodes to the
\* heading text; anchor-replay has yielded an entry with that kind and that
\* text (cut to 77 characters and "..." beyond 80) unless the lower-cased
\* text is one of SKIP_NAMES, and then it has yielded no entry of that name.
C11_MarkerReplayedUnlessSkipped ==
    pc = "done" =>
        \A ph \in MarkedHeadings :
            /\ \A k \in DOMAIN ph[2].markers : MarkerWellFormed(ph[2], ph[2].markers[k])
            /\ IF Lower(Strip(ph[2].text)) \in SKIP_NAMES
               THEN \A y \in yielded :
                       (y.parser = "DashAnchorParser" /\ y.page = ph[1])
                       => y.entry.name # Strip(ph[2].text)
               ELSE MarkerReplayed(ph[1], ph[2])

\* C11 witness: a finished run whose page has a marked heading of 81
\* characters, replayed under its 80-character name.
C11_Witness ==
    /\ pc = "done"
    /\ \E ph \in MarkedHeadings :
        /\ Len(Strip(ph[2].text)) > MaxNameLen
        /\ MarkerReplayed(ph[1], ph[2])

\* The extractor gives heading h a marker
Eligible(h) ==
    /\ h.level \in {1, 2, 3}
    /\ h.id # <<>>
    /\ Strip(h.text) # <<>>
    /\ Lower(Strip(h.text)) \notin {S_see_also, S_example, S_examples}

\* C12: when the second of two runs in a row has finished, every page it
\* transformed is the page the first run wrote (unless the first run had
\* copied that page verbatim), every eligible heading carries exactly one
\* marker, no other heading carries any, and a page with a head has
\* exactly one injected style rule.
C12_SecondRunSameOutput ==
    (rerun /\ pc = "done") =>
        \A path \in HtmlDocs \ raised :
            /\ path \in DOMAIN prev
            /\ docs[path] = prev[path] \/ prev[path] = FileAt(path).dom
            /\ docs[path].styles = IF docs[path].head THEN 1 ELSE 0
            /\ \A i \in DOMAIN docs[path].headings :
                  Len(docs[path].headings[i].markers) =
                      IF Eligible(docs[path].headings[i]) THEN 1 ELSE 0

\* C12 witness: the second run has finished and wrote, as the first did, a
\* page with a marker and a style rule.
C12_Witness ==
    /\ rerun
    /\ pc = "done"
    /\ \E path \in HtmlDocs \ raised :
        /\ docs[path] = prev[path]
        /\ docs[path].styles = 1
        /\ \E i \in DOMAIN docs[path].headings : docs[path].headings[i].markers # <<>>

\* C13: at every step of a run the files under the source tree are the
\* files it held before the run, also when the source docset directory is
\* output_dir/<name>.docset.
C13_SourceTreeUntouched == tree = original

\* The rules that classify a page by a pattern of its path
PathPatternParsers ==
    {"APIReferenceParser", "UtilitiesParser", "GuideParser", "MiscParser"}

\* The committed rows named name that point into the page
RowsOnPage(name, path) ==
    {i \in DOMAIN disk :
        /\ disk[i].name = name
        /\ disk[i].path = path \/ StartsWith(disk[i].path, path \o <<"#">>)}

\* C14: after a finished run, a page whose title was proposed both by
\* anchor-replay (from the marker of its level-1 heading) and by a
\* path-pattern rule has exactly one committed row for that title.
C14_TitleStoredOnce ==
    pc = "done" =>
        \A path \in HtmlDocs :
            LET title == get_title_from_soup(docs[path])
            IN (/\ \E y \in yielded :
                      /\ y.parser = "DashAnchorParser"
                      /\ y.page = path
                      /\ y.entry.entry_type = T_Guide
                      /\ y.entry.name = title
                /\ \E y \in yielded :
                      /\ y.parser \in PathPatternParsers
                      /\ y.page = path
                      /\ y.entry.name = title)
               => Cardinality(RowsOnPage(title, path)) = 1

\* C15: after a finished run the Fallback rule has yielded, for a page
\* that no path-pattern rule matches and whose resolved title exists and
\* is not "Raycast API" or "Raycast", the one entry (title, "Guide", page
\* path), and for every other page nothing, whatever the layout of the
\* tree.
C15_FallbackExactlyUnclaimed ==
    pc = "done" =>
        \A path \in HtmlDocs :
            LET title == get_title_from_soup(docs[path])
                claimed == \E p \in PathPatternParsers : Matches(p, path)
                out == {y \in yielded : y.parser = "FallbackParser" /\ y.page = path}
            IN IF ~claimed /\ ~Falsy(title) /\ title \notin {S_Raycast_API, S_Raycast}
               THEN out = {[parser |-> "FallbackParser", page |-> path, index |-> 1,
                            entry |-> IndexEntry(title, T_Guide, path)]}
               ELSE out = {}

\* The entries of parser p in a stream of tagged entries
EntriesOf(p, tagged) ==
    LET sub == SelectSeq(tagged, LAMBDA y : y.parser = p)
    IN [i \in DOMAIN sub |-> sub[i].entry]

\* The position of a parser in ALL_PARSERS
ParserIndex(p) == CHOOSE n \in DOMAIN ALL_PARSERS : ALL_PARSERS[n] = p

\* parse of parser p raised on the page
Raised(p, path) == \E w \in warnings : w.page = path /\ w.parser = p

\* C16: when _collect_entries moves to a page, the stream it will hand
\* over for that page holds the entries of the parsers in the order of
\* ALL_PARSERS, nothing from a parser that does not match the path, and
\* the whole output of every matching parser whose parse does not raise,
\* whatever the parsers before it yield.
C16_StreamIsConcatenation ==
    [][(pc = "_collect_entries" /\ visited' # visited) =>
          LET path == visited'[Len(visited')]
          IN /\ \A i, j \in DOMAIN queue' :
                    i < j => ParserIndex(queue'[i].parser) <= ParserIndex(queue'[j].parser)
             /\ \A i \in DOMAIN queue' : queue'[i].page = path
             /\ \A n \in DOMAIN ALL_PARSERS :
                    LET p == ALL_PARSERS[n]
                    IN IF ~Matches(p, path) THEN EntriesOf(p, queue') = <<>>
                       ELSE \/ \E w \in warnings' : w.page = path /\ w.parser = p
                            \/ EntriesOf(p, queue') = Parse(p, docs[path], path)]_vars

\* C16 witness: a visited page for which three parsers have each yielded
\* an entry.
C16_Witness ==
    /\ pc = "done"
    /\ \E v \in DOMAIN visited :
          Cardinality({y.parser : y \in {z \in yielded : z.page = visited[v]}}) >= 3

\* The keys of the whole output of parser p for the page
OutputKeys(p, path) ==
    LET out == Parse(p, docs[path], path)
    IN {EntryKey(out[i]) : i \in DOMAIN out}

\* C17: after a finished run the store holds exactly the keys of the
\* outputs of the parsers whose parse did not raise: nothing that only a
\* parser that raised on the page proposed, everything of the other
\* matching parsers and of the other pages.
C17_RaisingRuleLeavesNothing ==
    pc = "done" =>
        Keys(disk) =
            UNION {OutputKeys(pp[1], pp[2]) :
                   pp \in {qq \in {ALL_PARSERS[n] : n \in DOMAIN ALL_PARSERS} \X HtmlDocs :
                              Matches(qq[1], qq[2]) /\ ~Raised(qq[1], qq[2])}}

\* C18: when the --source path, or Contents/Resources/Documents under it,
\* is missing, the run is at every moment either before the build or
\* ended with status 1 and the message that names the missing path; it
\* can always take its next step until then, and nothing has been copied,
\* classified, created or inserted.
C18_MissingSourceFailsEarly ==
    source # "docset" =>
        /\ pc \in {"main", "build_docset", "failed"}
        /\ pc = "build_docset" => source = "no_documents"
        /\ pc = "failed" =>
              error = IF source = "missing" THEN "Source not found"
                      ELSE "Source documents not found"
        /\ pc # "failed" => ENABLED Next
        /\ docs = <<>> /\ ~plist /\ ~icon
        /\ rows = <<>> /\ disk = <<>> /\ entries_count = 0
        /\ todo = {} /\ visited = <<>> /\ queue = <<>> /\ yielded = {} /\ stream = <<>>

\* C18 witness: the run over a source docset without Documents has ended
\* with the error of build_docset.
C18_Witness ==
    source = "no_documents" /\ pc = "failed" /\ error = "Source documents not found"

\* C19: in every page the run has transformed, each relative reference is
\* the reference of the source page prefixed by "../" once for every
\* segment of the page path but the last.
C19_ReferencesPrefixed ==
    pc \notin {"main", "build_docset", "_create_structure"} =>
        \A path \in HtmlDocs \ raised :
            /\ Len(docs[path].refs) = Len(FileAt(path).dom.refs)
            /\ \A i \in DOMAIN docs[path].refs :
                  docs[path].refs[i] =
                      Repeat(<<".", ".", "/">>, Parts(path) - 1) \o FileAt(path).dom.refs[i]

\* C20: a call of prepare_contribution that finds docset.json leaves every
\* key but "version" with the value it had, adds no key but "version" and
\* removes none; when the call fails the file is as it was; a README.md
\* that exists is left as it was.
C20_OnlyVersionChanges ==
    [][(pc = "prepare_contribution" /\ "docset.json" \in DOMAIN contrib) =>
          /\ pc' = "prepared" =>
                LET before == json_load(contrib["docset.json"])
                    after == json_load(contrib'["docset.json"])
                IN /\ contrib'["docset.json"].valid
                   /\ DOMAIN after = DOMAIN before \cup {"version"}
                   /\ \A k \in DOMAIN before \ {"version"} : after[k] = before[k]
          /\ pc' = "failed" => contrib'["docset.json"] = contrib["docset.json"]
          /\ "README.md" \in DOMAIN contrib =>
                /\ "README.md" \in DOMAIN contrib'
                /\ contrib'["README.md"] = contrib["README.md"]]_vars

\* C20 witness: a docset.json with specific_versions and a custom README.md
\* after a call that set another version.
C20_Witness ==
    /\ pc = "prepared"
    /\ "docset.json" \in DOMAIN contrib
    /\ "specific_versions" \in DOMAIN json_load(contrib["docset.json"])
    /\ json_load(contrib["docset.json"]).version = "1.35"
    /\ "README.md" \in DOMAIN contrib
    /\ contrib["README.md"] = "custom"

\* ------------------------------------------------------------------------
\* The transformed page
\* ------------------------------------------------------------------------

\* The run has passed _create_structure: what lies under Documents was
\* written by _copy_documents
Copying == pc \notin {"main", "build_docset", "_create_structure"}

\* C21: in a page the extractor transformed, a heading carries a marker if
\* and only if its level is 1, 2 or 3, its id is not empty, its stripped
\* text is not empty and its lower-cased text is none of "see also",
\* "example", "examples"; the marker is inside the heading, at its start,
\* none stands in front of the heading, there is exactly one, and its kind
\* is "Guide" at level 1 and "Section" at levels 2 and 3.
C21_MarkerIffEligible ==
    Copying =>
        \A path \in HtmlDocs \ raised :
            \A i \in DOMAIN docs[path].headings :
                LET h == docs[path].headings[i]
                IN /\ h.before = <<>>
                   /\ Len(h.markers) = IF Eligible(h) THEN 1 ELSE 0
                   /\ \A k \in DOMAIN h.markers :
                         StartsWith(h.markers[k],
                                    S_apple_ref \o S_cpp \o
                                    (IF h.level = 1 THEN T_Guide ELSE T_Section) \o <<"/">>)

\* C21 witness: a finished run wrote a page whose level-1 heading carries a
\* "Guide" marker and whose other heading, at level 4, without id or with a
\* deny-listed text, carries none.
C21_Witness ==
    /\ pc = "done"
    /\ \E path \in HtmlDocs \ raised :
        \E i, j \in DOMAIN docs[path].headings :
            /\ docs[path].headings[i].level = 1
            /\ Len(docs[path].headings[i].markers) = 1
            /\ StartsWith(docs[path].headings[i].markers[1], S_apple_ref \o S_cpp \o T_Guide)
            /\ ~Eligible(docs[path].headings[j])
            /\ docs[path].headings[j].markers = <<>>

\* The headings of the source page that lie inside a header, nav or aside
\* element and share neither text nor id with a heading written to the
\* output page
ChromeHeadings(path) ==
    LET src == FileAt(path).dom.headings
        out == docs[path].headings
    IN {src[i] : i \in {j \in DOMAIN src :
                           /\ src[j].chrome
                           /\ \A k \in DOMAIN out :
                                 /\ Strip(out[k].text) # Strip(src[j].text)
                                 /\ out[k].id # src[j].id}}

\* Entry e of the page is named after heading h or points at it
DerivedFrom(e, h, path) ==
    \/ Strip(h.text) # <<>> /\ Contains(Strip(h.text), e.name)
    \/ h.id # <<>> /\ e.path = path \o <<"#">> \o h.id

\* C22: a page the extractor transformed holds no heading that lies inside
\* a header, nav or aside element, hence no marker of such a heading, and
\* no entry yielded for the page is named after such a heading of the
\* source page or points at it.
C22_NoChromeLeft ==
    Copying =>
        \A path \in HtmlDocs \ raised :
            /\ \A i \in DOMAIN docs[path].headings : ~docs[path].headings[i].chrome
            /\ \A h \in ChromeHeadings(path) :
                  \A y \in yielded : y.page = path => ~DerivedFrom(y.entry, h, path)

\* C22 witness: a finished run transformed and indexed a page whose source
\* has, inside a nav element, a heading the extractor would have marked.
C22_Witness ==
    /\ pc = "done"
    /\ \E path \in HtmlDocs \ raised :
        /\ \E h \in ChromeHeadings(path) : Eligible(h)
        /\ \A i \in DOMAIN docs[path].headings : ~docs[path].headings[i].chrome
        /\ \E y \in yielded : y.page = path

\* ------------------------------------------------------------------------
\* Title resolution and entry types
\* ------------------------------------------------------------------------

\* The title cut at the separator, " | " or " - ", that occurs first in it
CutAtFirstSeparator(title) ==
    LET bar == Find(S_bar, title)
        dash == Find(S_dash, title)
        at == IF bar = 0 THEN dash
              ELSE IF dash = 0 THEN bar
              ELSE IF bar < dash THEN bar ELSE dash
    IN IF at = 0 THEN Strip(title) ELSE Strip(SubSeq(title, 1, at - 1))

\* The title of a page as the claim resolves it
ClaimedTitle(dom) ==
    LET h1 == FirstH1(dom)
    IN IF h1 # <<>> /\ Strip(h1[1].text) # <<>> THEN Strip(h1[1].text)
       ELSE IF dom.title # None THEN CutAtFirstSeparator(dom.title)
       ELSE None

\* The page-level entries yielded: the first entry of a rule other than
\* anchor-replay, which points at the page itself
PageLevel == {y \in yielded : y.parser # "DashAnchorParser" /\ y.entry.path = y.page}

\* C23: after a finished run every page-level entry is named by the
\* stripped text of the page's first level-1 heading when that is not
\* empty, otherwise by the document title cut at whichever of " | " and
\* " - " occurs first in it; a page with neither has no page-level entry.
C23_TitleCutAtFirstSeparator ==
    pc = "done" =>
        \A y \in PageLevel :
            /\ ~Falsy(ClaimedTitle(docs[y.page]))
            /\ y.entry.name = ClaimedTitle(docs[y.page])

\* The texts the API-reference rule passes over
ApiDenyList ==
    {S_example, S_examples, S_props, S_properties, S_return, S_returns,
     S_parameters, S_signature, S_see_also}

\* Heading h is a member heading without argument list: level 2 to 4, an
\* id, a text outside the deny-list and not both "(" and ")" in it
PlainMember(h) ==
    /\ h.level \in {2, 3, 4}
    /\ h.id # <<>>
    /\ Strip(h.text) # <<>>
    /\ Lower(Strip(h.text)) \notin ApiDenyList
    /\ ~(Contains(<<"(">>, h.text) /\ Contains(<<")">>, h.text))

\* The type the claim gives a member heading of that text
ClaimedMemberType(text) ==
    IF Contains(<<" ">>, text) THEN T_Section
    ELSE IF IsUpperChar(text[1]) THEN T_Type
    ELSE IF IsLowerChar(text[1]) THEN T_Property
    ELSE T_Section

\* The entry the claim derives from member heading h of a page titled title
ClaimedMember(h, title, path) ==
    LET text == Strip(h.text)
        type == ClaimedMemberType(text)
    IN IndexEntry(IF type = T_Property THEN title \o <<".">> \o text ELSE text,
                  type, path \o <<"#">> \o h.id)

\* The entries the API-reference rule yielded for the page
ApiEntries(path) ==
    {y.entry : y \in {z \in yielded : z.parser = "APIReferenceParser" /\ z.page = path}}

HasSegment(seg, path) ==
    Contains(<<"/">> \o seg \o <<"/">>, <<"/">> \o path \o <<"/">>)

\* C25: after a finished run every page-level entry of the Utilities rule
\* has type "Class" when the page's path has an "oauth" segment, whatever
\* its title and its other segments are, and type "Function" otherwise.
C25_OauthIsClass ==
    pc = "done" =>
        \A y \in yielded :
            y.parser = "UtilitiesParser" =>
                y.entry.entry_type =
                    IF HasSegment(S_oauth, y.page) THEN T_Class ELSE T_Function

\* C26: after a finished run every page-level entry of the Misc rule has
\* type "Section" when the page's path contains "changelog", also when it
\* contains "migration" or "faq", and type "Guide" otherwise.
C26_ChangelogIsSection ==
    pc = "done" =>
        \A y \in yielded :
            y.parser = "MiscParser" =>
                y.entry.entry_type =
                    IF Contains(S_changelog, y.page) THEN T_Section ELSE T_Guide

\* ------------------------------------------------------------------------
\* Anchor-replay
\* ------------------------------------------------------------------------

\* The entries anchor-replay yielded
Replayed == {y \in yielded : y.parser = "DashAnchorParser"}

\* The decoded names of the markers of the page: the last segment of each
\* name attribute, unquoted
DecodedNames(path) ==
    UNION {{unquote(SubSeq(Anchors(docs[path].headings[i])[k],
                           Len(S_apple_ref \o S_cpp \o MarkerKind(docs[path].headings[i])) + 2,
                           Len(Anchors(docs[path].headings[i])[k]))) :
               k \in DOMAIN Anchors(docs[path].headings[i])} :
           i \in DOMAIN docs[path].headings}

\* C27: every entry anchor-replay yielded has a name of at most 80
\* characters, which is the decoded name of a marker of the page when that
\* has at most 80 characters and its first 77 characters followed by "..."
\* when it is longer.
C27_ReplayedNameAtMost80 ==
    \A y \in Replayed :
        /\ Len(y.entry.name) <= MaxNameLen
        /\ \E d \in DecodedNames(y.page) : y.entry.name = ReplayedName(d)

\* C27 witness: anchor-replay yielded the 80-character name cut from a
\* decoded name of 81 characters.
C27_Witness ==
    \E y \in Replayed :
        /\ Len(y.entry.name) = MaxNameLen
        /\ EndsWith(y.entry.name, S_ellipsis)
        /\ \E d \in DecodedNames(y.page) :
              Len(d) = MaxNameLen + 1 /\ y.entry.name = SubSeq(d, 1, KeptNameLen) \o S_ellipsis

\* The paths of the entries anchor-replay yielded for the page under the
\* kind and the text of heading h
ReplayedPaths(path, h) ==
    {y.entry.path : y \in {z \in Replayed :
                              /\ z.page = path
                              /\ z.entry.entry_type = MarkerKind(h)
                              /\ z.entry.name = ReplayedName(Strip(h.text))}}

\* C28: after a finished run the entry anchor-replay yielded for a marker
\* at the start of a heading points at <page>#<id> when the element that
\* follows the marker carries the id <id>, and at the bare page path when
\* no element follows it or that element has no id; for a heading that
\* holds only text the target is the page path, not <page>#<heading id>.
C28_TargetFromNextSibling ==
    pc = "done" =>
        \A path \in HtmlDocs :
            \A i \in DOMAIN docs[path].headings :
                LET h == docs[path].headings[i]
                IN (h.markers # <<>> /\ Lower(Strip(h.text)) \notin SKIP_NAMES) =>
                      ReplayedPaths(path, h) =
                          {IF h.sibling # <<>> THEN path \o <<"#">> \o h.sibling ELSE path}

\* C28 witness: a finished run replayed the marker of a heading with an id
\* and only text in it, and the entry points at the bare page path.
C28_Witness ==
    /\ pc = "done"
    /\ \E path \in HtmlDocs :
        \E i \in DOMAIN docs[path].headings :
            LET h == docs[path].headings[i]
            IN /\ h.markers # <<>>
               /\ h.id # <<>>
               /\ h.sibling = <<>>
               /\ ReplayedPaths(path, h) = {path}

\* ------------------------------------------------------------------------
\* The finished docset
\* ------------------------------------------------------------------------

\* A row path without its "#fragment"
WithoutFragment(path) == SplitFirst(path, <<"#">>)

\* C29: the path of every committed row, with its "#fragment" removed, is
\* the Documents-relative path of an HTML file that lies under Documents.
C29_RowPathsExist ==
    \A i \in DOMAIN disk : WithoutFragment(disk[i].path) \in HtmlDocs

\* C29 witness: a finished docset with a row that points at a page and a
\* row that points at a fragment of a page.
C29_Witness ==
    /\ pc = "done"
    /\ \E i, j \in DOMAIN disk :
        /\ disk[i].path \in HtmlDocs
        /\ Contains(<<"#">>, disk[j].path)
        /\ WithoutFragment(disk[j].path) \in HtmlDocs

\* C30: while main and build_docset have not passed the test of the source
\* documents directory, and for good when the source path or that directory
\* is missing, no step changes what lies at output_dir/<name>.docset: its
\* pages, Info.plist, icon and index stay as they were.
C30_ExistingDocsetKept ==
    [][(pc \in {"main", "build_docset"} \/ source # "docset")
       => UNCHANGED <<docs, plist, icon, disk, rows>>]_vars

\* C30 witness: the build failed for want of the source documents
\* directory, and the docset of the earlier build is still in place.
C30_Witness ==
    /\ source = "no_documents"
    /\ pc = "failed"
    /\ error = "Source documents not found"
    /\ docs = OldDocs
    /\ plist
    /\ icon
    /\ disk = OldRows

====
